---- MODULE Spec2Model ----
(***************************************************************************)
(* Export pipeline of the video editor backend.                            *)
(*                                                                         *)
(*   backend/app/job_queue.py        JobQueue: job map, FIFO of ids, lock  *)
(*   backend/app/main.py             process_jobs worker loop, endpoints   *)
(*   backend/app/video_processor.py  process_export / process_clip         *)
(*                                                                         *)
(* Threads.  Every endpoint is an `async def` without an await around the  *)
(* job store calls and process_jobs is a coroutine of the same asyncio     *)
(* loop, so endpoints and the segments of process_jobs between two awaits  *)
(* run one at a time on the thread "main".  process_export runs on the     *)
(* executor thread "render" and reaches the store only through add_log and *)
(* set_progress.  JobQueue._lock is a threading.Lock (not reentrant).      *)
(*                                                                         *)
(* Abstractions.  Job ids (uuid4 hex) are fresh naturals.  datetime.now()  *)
(* in created_at / completed_at is a logical clock that advances at each   *)
(* call.  A log entry is [msg, arg]: msg is the literal text of the        *)
(* f-string and arg the interpolated error text ("" when the interpolated  *)
(* value is a path, a number or absent); the "[HH:MM:SS] " prefix is not   *)
(* represented.  progress is a rational [n, d].                            *)
(***************************************************************************)
EXTENDS Integers, Sequences, FiniteSets, TLC

\* ------------------------------------------------------------------ bounds
MaxJobs == 3
MaxClips == 2
MaxOverlays == 2
MaxAudio == 2
MaxStoreJobs == 2
MaxCalls == 4
MaxListJobs == 4

VARIABLES
    jobs,     \* JobQueue.jobs: id -> Job
    queue,    \* JobQueue.queue: deque of ids
    lock,     \* JobQueue._lock: "free" or the holding thread
    clock,    \* datetime.now()
    el,       \* thread "main": "idle" | "blocked" (waiting for the lock)
    wpc,      \* process_jobs: "sleep" | "poll" | "await"
    rt,       \* thread "render": the running process_export call
    resp,     \* what the last call on the request path returned
    hist      \* history of the run (not program state)

vars == <<jobs, queue, lock, clock, el, wpc, rt, resp, hist>>

\* ------------------------------------------------------------ models.py
PENDING == "pending"
PROCESSING == "processing"
COMPLETED == "completed"
FAILED == "failed"
JobStatus == {PENDING, PROCESSING, COMPLETED, FAILED}

NoJob == 0
NoTime == -1
NoUrl == "None"

\* progress values are rationals n/d with d > 0
Rat(n, d) == [n |-> n, d |-> d]
Int2Rat(n) == Rat(n, 1)
RatLeq(a, b) == a.n * b.d <= b.n * a.d
RatEq(a, b) == a.n * b.d = b.n * a.d
RatMin(a, b) == IF RatLeq(a, b) THEN a ELSE b

Entry(m, a) == [msg |-> m, arg |-> a]

\* ClipRequest: the media reference either resolves to an existing file
\* ("ok") or not ("missing"); each overlay either builds ("ok") or makes
\* its constructor / its download raise ("bad").  track is the editor's
\* track number of the clip (default 0).
ClipRequest(src, texts, images) ==
    [video_url |-> src, track |-> 0, text_overlays |-> texts,
     image_overlays |-> images]

ExportRequest(clips, audio) == [clips |-> clips, audio_tracks |-> audio]

Job(id, request, now) ==
    [id |-> id, status |-> PENDING, progress |-> Int2Rat(0), logs |-> <<>>,
     created_at |-> now, completed_at |-> NoTime, output_url |-> NoUrl,
     request |-> request]

\* ------------------------------------------------------------ job_queue.py
\* `with self._lock` on a threading.Lock: thread t gets it only when free
LockAvailableReentrant(holder, t) == holder \in {"free", t}
LockAvailable(holder, t) == holder = "free"

\* update_job(job_id, **kwargs) for the keyword sets the program uses
update_job_upsert(js, id, fields) ==
    LET old == IF id \in DOMAIN js THEN js[id] ELSE Job(id, <<>>, 0) IN
    (id :> [k \in DOMAIN old |-> IF k \in DOMAIN fields THEN fields[k] ELSE old[k]])
    @@ js
update_job(js, id, fields) ==
    IF id \in DOMAIN js
    THEN [js EXCEPT ![id] =
            [k \in DOMAIN js[id] |->
                IF k \in DOMAIN fields THEN fields[k] ELSE js[id][k]]]
    ELSE js

add_log_prepend(js, id, entry) ==
    IF id \in DOMAIN js
    THEN [js EXCEPT ![id].logs = <<entry>> \o @]
    ELSE js
add_log(js, id, entry) ==
    IF id \in DOMAIN js
    THEN [js EXCEPT ![id].logs = Append(@, entry)]
    ELSE js

set_progress_unclamped(js, id, progress) ==
    update_job(js, id, [progress |-> progress])
set_progress(js, id, progress) ==
    update_job(js, id, [progress |-> RatMin(progress, Int2Rat(100))])

\* get_next_job: pop from the left until a PENDING job is found
RECURSIVE get_next_job_pop_right(_, _)
get_next_job_pop_right(js, q) ==
    IF q = <<>> THEN [job |-> NoJob, queue |-> <<>>]
    ELSE LET last == q[Len(q)]
             rest == SubSeq(q, 1, Len(q) - 1)
         IN  IF last \in DOMAIN js /\ js[last].status = PENDING
             THEN [job |-> last, queue |-> rest]
             ELSE get_next_job_pop_right(js, rest)
RECURSIVE get_next_job(_, _)
get_next_job(js, q) ==
    IF q = <<>> THEN [job |-> NoJob, queue |-> <<>>]
    ELSE IF Head(q) \in DOMAIN js /\ js[Head(q)].status = PENDING
         THEN [job |-> Head(q), queue |-> Tail(q)]
         ELSE get_next_job(js, Tail(q))

complete_job_keeps_status(js, id, output_url, now) ==
    add_log(update_job(js, id, [progress |-> Int2Rat(100),
                                completed_at |-> now, output_url |-> output_url]),
            id, Entry("Job completed successfully", ""))
complete_job(js, id, output_url, now) ==
    add_log(update_job(js, id, [status |-> COMPLETED, progress |-> Int2Rat(100),
                                completed_at |-> now, output_url |-> output_url]),
            id, Entry("Job completed successfully", ""))

fail_job_no_text(js, id, error, now) ==
    add_log(update_job(js, id, [status |-> FAILED, completed_at |-> now]),
            id, Entry("Job failed", ""))
fail_job_back_to_pending(js, id, error, now) ==
    add_log(update_job(js, id, [status |-> PENDING, completed_at |-> now]),
            id, Entry("Job failed: ", error))
fail_job(js, id, error, now) ==
    add_log(update_job(js, id, [status |-> FAILED, completed_at |-> now]),
            id, Entry("Job failed: ", error))

\* deque.remove(x): drops the first occurrence, ValueError (ignored) if none
RECURSIVE deque_remove(_, _)
deque_remove(q, id) ==
    IF q = <<>> THEN <<>>
    ELSE IF Head(q) = id THEN Tail(q)
         ELSE <<Head(q)>> \o deque_remove(Tail(q), id)

InQueue(q, id) == \E k \in 1..Len(q) : q[k] = id
Range(q) == {q[k] : k \in 1..Len(q)}

\* cancel_job's guard
cancel_guard_any(js, id) == id \in DOMAIN js
cancel_guard(js, id) == id \in DOMAIN js /\ js[id].status = PENDING

\* cancel_job run by thread t that finds the lock free.  Inside the lock it
\* writes status and completed_at and then calls add_log, which asks for
\* the same lock again: a threading.Lock is not handed to its own holder,
\* so the call stops there with the lock held.  Result: the store after the
\* call, or as the blocked call leaves it.
cancel_job_only_logs(js, q, id, now, t) ==
    IF cancel_guard(js, id)
    THEN [jobs |-> add_log(js, id, Entry("Job cancelled by user", "")),
          queue |-> q, lock |-> "free", returned |-> TRUE, acted |-> TRUE]
    ELSE [jobs |-> js, queue |-> q, lock |-> "free",
          returned |-> TRUE, acted |-> FALSE]
cancel_job(js, q, id, now, t) ==
    IF cancel_guard(js, id)
    THEN LET js1 == [js EXCEPT ![id].status = FAILED, ![id].completed_at = now]
         IN  IF LockAvailable(t, t)
             THEN [jobs |-> add_log(js1, id, Entry("Job cancelled by user", "")),
                   queue |-> deque_remove(q, id), lock |-> "free",
                   returned |-> TRUE, acted |-> TRUE]
             ELSE [jobs |-> js1, queue |-> q, lock |-> t,
                   returned |-> FALSE, acted |-> TRUE]
    ELSE [jobs |-> js, queue |-> q, lock |-> "free",
          returned |-> TRUE, acted |-> FALSE]

NextId == Cardinality(DOMAIN jobs) + 1

\* create_job(request) with job_id = id and datetime.now() = now: the job is
\* stored and its id appended under the lock, then the creation entry is
\* logged.  Result: the store and the queue after the call.
create_job_enqueues_twice(js, q, id, request, now) ==
    [jobs |-> add_log(js @@ (id :> Job(id, request, now)), id,
                      Entry("Job created and added to queue", "")),
     queue |-> q \o <<id, id>>]
create_job_enqueues_before_storing(js, q, id, request, now) ==
    [jobs |-> js, queue |-> Append(q, id)]
create_job_push_left(js, q, id, request, now) ==
    [jobs |-> add_log(js @@ (id :> Job(id, request, now)), id,
                      Entry("Job created and added to queue", "")),
     queue |-> <<id>> \o q]
create_job(js, q, id, request, now) ==
    [jobs |-> add_log(js @@ (id :> Job(id, request, now)), id,
                      Entry("Job created and added to queue", "")),
     queue |-> Append(q, id)]

\* self.jobs.values(): a dict iterates in insertion order, which is the
\* order of the ids
Values(js) == [k \in 1..Cardinality(DOMAIN js) |-> js[k]]

\* get_all_jobs: sorted(values, key=(status_order[status], created_at));
\* sorted() is stable, modelled as an insertion sort that puts each job
\* behind the jobs whose key is not greater
status_order_by_lifecycle(status) ==
    CASE status = PENDING -> 0
      [] status = PROCESSING -> 1
      [] status = COMPLETED -> 2
      [] status = FAILED -> 3
      [] OTHER -> 4
status_order(status) ==
    CASE status = PROCESSING -> 0
      [] status = PENDING -> 1
      [] status = COMPLETED -> 2
      [] status = FAILED -> 3
      [] OTHER -> 4

SortKey(job) == <<status_order(job.status), job.created_at>>
KeyLess(a, b) == a[1] < b[1] \/ (a[1] = b[1] /\ a[2] < b[2])

RECURSIVE InsertSorted(_, _)
InsertSorted(sorted, job) ==
    IF sorted = <<>> THEN <<job>>
    ELSE IF KeyLess(SortKey(job), SortKey(Head(sorted)))
         THEN <<job>> \o sorted
         ELSE <<Head(sorted)>> \o InsertSorted(Tail(sorted), job)

get_all_jobs(js) ==
    LET values == Values(js)
        f[k \in 0..Len(values)] ==
            IF k = 0 THEN <<>> ELSE InsertSorted(f[k - 1], values[k])
    IN  f[Len(values)]

\* get_queue_stats: total = len(jobs), one counter per status incremented
\* while iterating over the jobs
get_queue_stats_skips_failed(js) ==
    LET values == Values(js)
        f[k \in 0..Len(values)] ==
            IF k = 0
            THEN [pending |-> 0, processing |-> 0, completed |-> 0,
                  failed |-> 0, total |-> Len(values)]
            ELSE IF values[k].status = FAILED THEN f[k - 1]
                 ELSE [f[k - 1] EXCEPT ![values[k].status] = @ + 1]
    IN  f[Len(values)]
get_queue_stats(js) ==
    LET values == Values(js)
        f[k \in 0..Len(values)] ==
            IF k = 0
            THEN [pending |-> 0, processing |-> 0, completed |-> 0,
                  failed |-> 0, total |-> Len(values)]
            ELSE [f[k - 1] EXCEPT ![values[k].status] = @ + 1]
    IN  f[Len(values)]

\* what a call gave back: an endpoint's status code (0 while it has not
\* answered) with the job id its body carries, or, for a direct call of a
\* JobQueue method, the id and the value it was called with
Resp(op, id, code) == [op |-> op, id |-> id, code |-> code]

\* the render thread when no export is running
RenderIdle ==
    [pc |-> "idle", job |-> NoJob, i |-> 0, processed |-> <<>>,
     final |-> <<>>, audio |-> <<>>, exc |-> "", output |-> NoUrl]

Hist0 ==
    [dequeued |-> <<>>, started |-> <<>>, exported |-> <<>>,
     cancelled |-> {}, fault |-> <<>>, progress |-> <<>>, written |-> {},
     calls |-> 0]

Init ==
    /\ jobs = <<>>
    /\ queue = <<>>
    /\ lock = "free"
    /\ clock = 0
    /\ el = "idle"
    /\ wpc = "sleep"
    /\ rt = RenderIdle
    /\ resp = Resp("none", NoJob, 0)
    /\ hist = Hist0

\* ------------------------------------------------------------- inputs
SeqsUpTo(S, n) == UNION {[1..k -> S] : k \in 0..n}

ClipRequests ==
    {ClipRequest("ok", t, g) :
        t \in SeqsUpTo({"ok", "bad"}, MaxOverlays),
        g \in SeqsUpTo({"ok", "bad"}, MaxOverlays)}

PlainClip(src) == ClipRequest(src, <<>>, <<>>)

TrackClip(src, track) == [PlainClip(src) EXCEPT !.track = track]

\* requests of the composition-engine specification: one clip with any
\* overlays, one plain clip with audio tracks, or several plain clips on any tracks
EngineRequests ==
    {ExportRequest(<<c>>, <<>>) : c \in ClipRequests}
    \cup
    {ExportRequest(<<PlainClip("ok")>>, a) :
        a \in SeqsUpTo({"ok", "missing", "bad"}, MaxAudio)}
    \cup
    {ExportRequest(c, <<>>) :
        c \in SeqsUpTo({TrackClip(src, track) :
                            src \in {"ok", "missing"}, track \in {0, 1}},
                        MaxClips) \ {<<>>}}

\* requests of the scheduling specification: one clip, present or not
SchedRequests ==
    {ExportRequest(<<PlainClip(src)>>, <<>>) : src \in {"ok", "missing"}}

\* ---------------------------------------------------- main.py, request path
\* An endpoint runs when thread "main" is not inside process_jobs (which
\* gives the loop back only at its two awaits) and not blocked on the lock.
LoopFree == el = "idle" /\ wpc \in {"sleep", "await"}

\* POST /api/export -> JobQueue.create_job(request)
StartExport(requests, bound) ==
    /\ LoopFree
    /\ LockAvailable(lock, "main")
    /\ NextId <= bound
    /\ \E request \in requests :
        LET id == NextId
            r == create_job(jobs, queue, id, request, clock)
        IN  /\ jobs' = r.jobs
            /\ queue' = r.queue
            /\ resp' = Resp("create_job", id, 200)
    /\ clock' = clock + 1
    /\ UNCHANGED <<lock, el, wpc, rt, hist>>

\* POST /api/job/{job_id}/cancel: the two HTTPExceptions raised before
\* JobQueue.cancel_job is called; 200 stands for "goes on to cancel_job"
cancel_checks_existence_only(js, id) ==
    IF id \notin DOMAIN js THEN 404 ELSE 200
cancel_checks(js, id) ==
    IF id \notin DOMAIN js THEN 404
    ELSE IF js[id].status # PENDING THEN 400
    ELSE 200

CancelEndpoint(id) ==
    /\ LoopFree
    /\ IF cancel_checks(jobs, id) # 200
       THEN /\ resp' = Resp("cancel_job", NoJob, cancel_checks(jobs, id))
            /\ UNCHANGED <<jobs, queue, lock, clock, el, hist>>
       ELSE /\ LockAvailable(lock, "main")
            /\ LET r == cancel_job(jobs, queue, id, clock, "main") IN
                /\ jobs' = r.jobs
                /\ queue' = r.queue
                /\ lock' = r.lock
                /\ el' = IF r.returned THEN "idle" ELSE "blocked"
                /\ resp' = IF r.returned THEN Resp("cancel_job", NoJob, 200)
                           ELSE Resp("cancel_job", NoJob, 0)
                /\ hist' = IF r.acted
                           THEN [hist EXCEPT !.cancelled = @ \cup {id}]
                           ELSE hist
            /\ clock' = clock + 1
    /\ UNCHANGED <<wpc, rt>>

\* ---------------------------------------------------- main.py, process_jobs
\* One pass from `job = job_queue.get_next_job()` to the next await: either
\* asyncio.sleep(1) or the run_in_executor future of the export.
WorkerPoll_off_the_event_loop ==
    /\ wpc \in {"sleep", "poll"}
    /\ LockAvailable(lock, "main")
    /\ LET r == get_next_job(jobs, queue) IN
        /\ queue' = r.queue
        /\ IF r.job # NoJob
           THEN /\ jobs' = add_log(update_job(jobs, r.job, [status |-> PROCESSING]),
                                   r.job, Entry("Starting processing...", ""))
                /\ rt' = [RenderIdle EXCEPT !.pc = "start", !.job = r.job]
                /\ wpc' = "await"
                /\ hist' = [hist EXCEPT !.dequeued = Append(@, r.job),
                                        !.started = Append(@, r.job),
                                        !.exported = Append(@, r.job)]
           ELSE /\ wpc' = "sleep"
                /\ UNCHANGED <<jobs, rt, hist>>
    /\ UNCHANGED <<lock, clock, el, resp>>
WorkerPoll ==
    /\ el = "idle"
    /\ wpc \in {"sleep", "poll"}
    /\ LockAvailable(lock, "main")
    /\ LET r == get_next_job(jobs, queue) IN
        /\ queue' = r.queue
        /\ IF r.job # NoJob
           THEN /\ jobs' = add_log(update_job(jobs, r.job, [status |-> PROCESSING]),
                                   r.job, Entry("Starting processing...", ""))
                /\ rt' = [RenderIdle EXCEPT !.pc = "start", !.job = r.job]
                /\ wpc' = "await"
                /\ hist' = [hist EXCEPT !.dequeued = Append(@, r.job),
                                        !.started = Append(@, r.job),
                                        !.exported = Append(@, r.job)]
           ELSE /\ wpc' = "sleep"
                /\ UNCHANGED <<jobs, rt, hist>>
    /\ UNCHANGED <<lock, clock, el, resp>>

\* The future of the export resolves: complete_job or fail_job, then the
\* loop goes round without an await.
WorkerFinish_no_except ==
    /\ el = "idle"
    /\ wpc = "await"
    /\ rt.pc \in {"returned", "raised"}
    /\ LockAvailable(lock, "main")
    /\ jobs' = complete_job(jobs, rt.job, rt.output, clock)
    /\ clock' = clock + 1
    /\ rt' = RenderIdle
    /\ wpc' = "poll"
    /\ UNCHANGED <<queue, lock, el, resp, hist>>
WorkerFinish ==
    /\ el = "idle"
    /\ wpc = "await"
    /\ rt.pc \in {"returned", "raised"}
    /\ LockAvailable(lock, "main")
    /\ jobs' = IF rt.pc = "returned"
               THEN complete_job(jobs, rt.job, rt.output, clock)
               ELSE fail_job(jobs, rt.job, rt.exc, clock)
    /\ clock' = clock + 1
    /\ rt' = RenderIdle
    /\ wpc' = "poll"
    /\ UNCHANGED <<queue, lock, el, resp, hist>>

\* ------------------------------------------------ video_processor.py
RECURSIVE AddLogs(_, _, _)
AddLogs(js, id, entries) ==
    IF entries = <<>> THEN js
    ELSE AddLogs(add_log(js, id, Head(entries)), id, Tail(entries))

\* error texts; the texts of the media library's own exceptions are opaque
NotFoundError == "Video file not found at path: "
DownloadError == "Failed to download image from "
TextClipError == "TextClip error"
PrimitiveError(stage) == stage \o " error"

\* a clip is the list of its layers, bottom first
Layer(kind, k) == [kind |-> kind, k |-> k]
RECURSIVE Flatten(_)
Flatten(clips) == IF clips = <<>> THEN <<>> ELSE Head(clips) \o Flatten(Tail(clips))
CompositeVideoClip(clips) == Flatten(clips)

\* the overlays of a list that were built, as one-layer clips in list order
BuiltOverlays(kind, ovs) ==
    LET f[k \in 0..Len(ovs)] ==
            IF k = 0 THEN <<>>
            ELSE IF ovs[k] = "ok" THEN Append(f[k - 1], <<Layer(kind, k)>>)
                 ELSE f[k - 1]
    IN  f[Len(ovs)]

\* log of the text overlay loop: a warning per TextClip that raised
TextOverlayLogs(ovs) ==
    LET f[k \in 0..Len(ovs)] ==
            IF k = 0 THEN <<>>
            ELSE IF ovs[k] = "ok" THEN f[k - 1]
                 ELSE Append(f[k - 1],
                        Entry("Warning: Failed to add text overlay: ", TextClipError))
    IN  f[Len(ovs)]

\* log of the image overlay loop: create_image_overlay_clip logs and
\* re-raises, process_clip catches and logs the warning
ImageOverlayLogsPropagate(ovs) ==
    LET f[k \in 0..Len(ovs)] ==
            IF k = 0 THEN <<>>
            ELSE IF ovs[k] = "ok"
                 THEN Append(f[k - 1], Entry("Processed overlay image: ", ""))
                 ELSE f[k - 1] \o
                      <<Entry("Failed to create image overlay: ", DownloadError)>>
    IN  f[Len(ovs)]
ImageOverlayLogs(ovs) ==
    LET f[k \in 0..Len(ovs)] ==
            IF k = 0 THEN <<>>
            ELSE IF ovs[k] = "ok"
                 THEN Append(f[k - 1], Entry("Processed overlay image: ", ""))
                 ELSE f[k - 1] \o
                      <<Entry("Failed to create image overlay: ", DownloadError),
                        Entry("Warning: Failed to add image overlay: ", DownloadError)>>
    IN  f[Len(ovs)]

\* does an overlay failure leave the overlay loops of process_clip?
OverlayErrorEscapesAlways(ovs) == \E k \in 1..Len(ovs) : ovs[k] = "bad"
OverlayErrorEscapes(ovs) == FALSE

\* os.path.exists(url_resolver(video_url))
resolves_always(video_url) == TRUE
resolves(video_url) == video_url # "missing"

\* process_clip(clip_request, ...) for clip number idx; fault names the
\* media primitive that raises in this call ("none", "load", "trim").
\* Result: [raised, stage, err, logs, clip].
process_clip(c, idx, fault) ==
    LET head == <<Entry("=== Starting process_clip ===", ""),
                  Entry("Input video_url: ", ""),
                  Entry("URL resolver provided: ", ""),
                  Entry("self.uploads_dir: ", ""),
                  Entry("Calling url_resolver...", ""),
                  Entry("Resolved path from url_resolver: ", ""),
                  Entry("Final video path: ", "")>>
        base == <<Layer("base", idx)>>
        text_clips == BuiltOverlays("text", c.text_overlays)
        image_clips == BuiltOverlays("image", c.image_overlays)
        clip1 == IF c.text_overlays # <<>> /\ text_clips # <<>>
                 THEN CompositeVideoClip(<<base>> \o text_clips)
                 ELSE base
        all_overlays == text_clips \o image_clips
        clip2 == IF all_overlays # <<>>
                 THEN CompositeVideoClip(<<clip1>> \o all_overlays)
                 ELSE clip1
        loaded == head \o <<Entry("File exists check: ", "True"),
                            Entry("Loading video file with MoviePy...", "")>>
    IN
    IF ~resolves(c.video_url)
    THEN [raised |-> TRUE, stage |-> "resolve", err |-> NotFoundError, clip |-> <<>>,
          logs |-> head \o <<Entry("File exists check: ", "False"),
                             Entry("Files in uploads dir", ""),
                             Entry("ERROR in process_clip during load: ", NotFoundError)>>]
    ELSE IF fault = "load"
    THEN [raised |-> TRUE, stage |-> "load", err |-> PrimitiveError("load"), clip |-> <<>>,
          logs |-> Append(loaded,
                     Entry("ERROR in process_clip during load: ", PrimitiveError("load")))]
    ELSE IF fault = "trim"
    THEN [raised |-> TRUE, stage |-> "trim", err |-> PrimitiveError("trim"), clip |-> <<>>,
          logs |-> loaded \o <<Entry("Video loaded successfully. Duration: ", ""),
                               Entry("Trimming: ", "")>>]
    ELSE IF OverlayErrorEscapes(c.text_overlays \o c.image_overlays)
    THEN [raised |-> TRUE, stage |-> "overlay", err |-> DownloadError, clip |-> <<>>,
          logs |-> loaded \o <<Entry("Video loaded successfully. Duration: ", ""),
                               Entry("Trimming: ", "")>>
                   \o ImageOverlayLogsPropagate(c.image_overlays)]
    ELSE [raised |-> FALSE, stage |-> "", err |-> "", clip |-> clip2,
          logs |-> loaded
                   \o <<Entry("Video loaded successfully. Duration: ", ""),
                        Entry("Trimming: ", "")>>
                   \o (IF c.text_overlays # <<>>
                       THEN <<Entry("Adding text overlay(s)", "")>>
                            \o TextOverlayLogs(c.text_overlays)
                       ELSE <<>>)
                   \o (IF c.image_overlays # <<>>
                       THEN <<Entry("Adding image overlay(s)", "")>>
                            \o ImageOverlayLogs(c.image_overlays)
                       ELSE <<>>)
                   \o (IF all_overlays # <<>>
                       THEN <<Entry("Successfully added overlay(s)", "")>>
                       ELSE <<>>)]

\* ---------------------------------------------- process_export, by stage
\* Each action is the code between two progress checkpoints, run by thread
\* "render"; its log and progress callbacks take the store's lock.
Req == jobs[rt.job].request

progress_callback(js, id, value) == set_progress(js, id, value)

Reported(value) ==
    [hist EXCEPT !.progress =
        [j \in DOMAIN @ \cup {rt.job} |->
            IF j \in DOMAIN @ THEN IF j = rt.job THEN Append(@[j], value) ELSE @[j]
            ELSE <<value>>]]

\* `except Exception as e: log(f"Export failed: {str(e)}"); raise`
ExportRaises(stage, err, logs, h) ==
    /\ jobs' = AddLogs(jobs, rt.job, Append(logs, Entry("Export failed: ", err)))
    /\ rt' = [rt EXCEPT !.pc = "raised", !.exc = err]
    /\ hist' = [h EXCEPT !.fault = @ @@ (rt.job :> [stage |-> stage, err |-> err])]

RenderStart ==
    /\ rt.pc = "start"
    /\ LockAvailable(lock, "render")
    /\ jobs' = AddLogs(jobs, rt.job,
                  <<Entry("Starting export process...", ""),
                    Entry("URL resolver provided: ", ""),
                    Entry("Uploads directory: ", "")>>)
    /\ rt' = [rt EXCEPT !.pc = "clip", !.i = 1]
    /\ UNCHANGED <<queue, lock, clock, el, wpc, resp, hist>>

RenderClip ==
    /\ rt.pc = "clip"
    /\ LockAvailable(lock, "render")
    /\ \E fault \in IF resolves(Req.clips[rt.i].video_url)
                    THEN {"none", "load", "trim"} ELSE {"none"} :
        LET n == Len(Req.clips)
            r == process_clip(Req.clips[rt.i], rt.i, fault)
            logs == <<Entry("Processing clip", ""), Entry("Clip video_url: ", "")>>
                    \o r.logs
            value == Rat(50 * rt.i, n)
        IN  IF r.raised
            THEN ExportRaises(r.stage, r.err, logs, hist)
            ELSE /\ jobs' = progress_callback(AddLogs(jobs, rt.job, logs), rt.job, value)
                 /\ rt' = [rt EXCEPT !.processed = Append(@, r.clip),
                                     !.i = @ + 1,
                                     !.pc = IF rt.i = n THEN "concat" ELSE "clip"]
                 /\ hist' = Reported(value)
    /\ UNCHANGED <<queue, lock, clock, el, wpc, resp>>

\* a stage whose media primitive may raise
StageOutcomes == {"ok", "raise"}

\* the indices of the clip requests, those of track 0 before those of track 1
TrackOrder(clips_requests) ==
    LET on(track) == SelectSeq([k \in 1..Len(clips_requests) |-> k],
                               LAMBDA k : clips_requests[k].track = track)
    IN  on(0) \o on(1)

RenderConcat_orders_by_track ==
    /\ rt.pc = "concat"
    /\ LockAvailable(lock, "render")
    /\ LET logs == <<Entry("Concatenating clips...", "")>> IN
       \E out \in IF Len(rt.processed) = 1 THEN {"ok"} ELSE StageOutcomes :
        IF out = "raise"
        THEN ExportRaises("concat", PrimitiveError("concat"), logs, hist)
        ELSE /\ jobs' = progress_callback(AddLogs(jobs, rt.job, logs), rt.job, Int2Rat(60))
             /\ rt' = [rt EXCEPT !.pc = "resize",
                          !.final = [clips |-> [k \in 1..Len(rt.processed) |->
                                         rt.processed[TrackOrder(Req.clips)[k]]],
                                     concatenated |-> Len(rt.processed) # 1]]
             /\ hist' = Reported(Int2Rat(60))
    /\ UNCHANGED <<queue, lock, clock, el, wpc, resp>>
RenderConcat ==
    /\ rt.pc = "concat"
    /\ LockAvailable(lock, "render")
    /\ LET logs == <<Entry("Concatenating clips...", "")>> IN
       \E out \in IF Len(rt.processed) = 1 THEN {"ok"} ELSE StageOutcomes :
        IF out = "raise"
        THEN ExportRaises("concat", PrimitiveError("concat"), logs, hist)
        ELSE /\ jobs' = progress_callback(AddLogs(jobs, rt.job, logs), rt.job, Int2Rat(60))
             /\ rt' = [rt EXCEPT !.pc = "resize",
                          !.final = [clips |-> rt.processed,
                                     concatenated |-> Len(rt.processed) # 1]]
             /\ hist' = Reported(Int2Rat(60))
    /\ UNCHANGED <<queue, lock, clock, el, wpc, resp>>

RenderResize ==
    /\ rt.pc = "resize"
    /\ LockAvailable(lock, "render")
    /\ LET logs == <<Entry("Resizing to aspect ratio...", "")>> IN
       \E out \in StageOutcomes :
        IF out = "raise"
        THEN ExportRaises("resize", PrimitiveError("resize"), logs, hist)
        ELSE /\ jobs' = progress_callback(AddLogs(jobs, rt.job, logs), rt.job, Int2Rat(70))
             /\ rt' = [rt EXCEPT !.pc = "audio"]
             /\ hist' = Reported(Int2Rat(70))
    /\ UNCHANGED <<queue, lock, clock, el, wpc, resp>>

\* the audio loop: a track is skipped with a warning when its file is not
\* there ("missing") or AudioFileClip raises on it ("bad")
AudioLayers_keeps_unresolved(tracks) ==
    [k \in 1..Len(tracks) |-> Layer("track", k)]
AudioLayers(tracks) ==
    LET f[k \in 0..Len(tracks)] ==
            IF k = 0 THEN <<>>
            ELSE IF tracks[k] = "ok" THEN Append(f[k - 1], Layer("track", k))
                 ELSE f[k - 1]
    IN  f[Len(tracks)]

AudioLogs(tracks) ==
    LET f[k \in 0..Len(tracks)] ==
            IF k = 0 THEN <<>>
            ELSE IF tracks[k] = "ok" THEN f[k - 1]
                 ELSE IF tracks[k] = "missing"
                 THEN Append(f[k - 1], Entry("Warning: Audio file not found: ", ""))
                 ELSE Append(f[k - 1], Entry("Warning: Failed to add audio track: ",
                                             PrimitiveError("AudioFileClip")))
    IN  f[Len(tracks)]

RenderAudio_no_checkpoint_without_audio ==
    /\ rt.pc = "audio"
    /\ LockAvailable(lock, "render")
    /\ IF Req.audio_tracks = <<>>
       THEN /\ rt' = [rt EXCEPT !.pc = "encode"]
            /\ UNCHANGED <<jobs, hist>>
       ELSE \E original \in BOOLEAN, out \in StageOutcomes :
            LET audio_clips == (IF original THEN <<Layer("original", 0)>> ELSE <<>>)
                               \o AudioLayers(Req.audio_tracks)
                logs == <<Entry("Adding audio track(s)...", "")>>
                        \o AudioLogs(Req.audio_tracks)
            IN  IF out = "raise" /\ audio_clips # <<>>
                THEN ExportRaises("audio", PrimitiveError("audio"), logs, hist)
                ELSE /\ out = "ok"
                     /\ jobs' = progress_callback(AddLogs(jobs, rt.job, logs),
                                                  rt.job, Int2Rat(80))
                     /\ rt' = [rt EXCEPT !.pc = "encode", !.audio = audio_clips]
                     /\ hist' = Reported(Int2Rat(80))
    /\ UNCHANGED <<queue, lock, clock, el, wpc, resp>>
RenderAudio ==
    /\ rt.pc = "audio"
    /\ LockAvailable(lock, "render")
    /\ IF Req.audio_tracks = <<>>
       THEN /\ jobs' = progress_callback(jobs, rt.job, Int2Rat(80))
            /\ rt' = [rt EXCEPT !.pc = "encode"]
            /\ hist' = Reported(Int2Rat(80))
       ELSE \E original \in BOOLEAN, out \in StageOutcomes :
            LET audio_clips == (IF original THEN <<Layer("original", 0)>> ELSE <<>>)
                               \o AudioLayers(Req.audio_tracks)
                logs == <<Entry("Adding audio track(s)...", "")>>
                        \o AudioLogs(Req.audio_tracks)
            IN  IF out = "raise" /\ audio_clips # <<>>
                THEN ExportRaises("audio", PrimitiveError("audio"), logs, hist)
                ELSE /\ out = "ok"
                     /\ jobs' = progress_callback(AddLogs(jobs, rt.job, logs),
                                                  rt.job, Int2Rat(80))
                     /\ rt' = [rt EXCEPT !.pc = "encode", !.audio = audio_clips]
                     /\ hist' = Reported(Int2Rat(80))
    /\ UNCHANGED <<queue, lock, clock, el, wpc, resp>>

\* write_videofile, then progress_callback(100)
RenderEncode_reports_before_write ==
    /\ rt.pc = "encode"
    /\ LockAvailable(lock, "render")
    /\ LET logs == <<Entry("Encoding video...", "")>> IN
       \E out \in StageOutcomes :
        IF out = "raise"
        THEN /\ jobs' = AddLogs(progress_callback(jobs, rt.job, Int2Rat(100)), rt.job,
                                Append(logs, Entry("Export failed: ",
                                                   PrimitiveError("encode"))))
             /\ rt' = [rt EXCEPT !.pc = "raised", !.exc = PrimitiveError("encode")]
             /\ hist' = [Reported(Int2Rat(100)) EXCEPT !.fault =
                            @ @@ (rt.job :> [stage |-> "encode",
                                             err |-> PrimitiveError("encode")])]
        ELSE /\ jobs' = add_log(progress_callback(AddLogs(jobs, rt.job, logs),
                                                  rt.job, Int2Rat(100)),
                                rt.job, Entry("Export completed successfully!", ""))
             /\ rt' = [rt EXCEPT !.pc = "cleanup"]
             /\ hist' = [Reported(Int2Rat(100)) EXCEPT !.written = @ \cup {rt.job}]
    /\ UNCHANGED <<queue, lock, clock, el, wpc, resp>>
RenderEncode ==
    /\ rt.pc = "encode"
    /\ LockAvailable(lock, "render")
    /\ LET logs == <<Entry("Encoding video...", "")>> IN
       \E out \in StageOutcomes :
        IF out = "raise"
        THEN ExportRaises("encode", PrimitiveError("encode"), logs, hist)
        ELSE /\ jobs' = add_log(progress_callback(AddLogs(jobs, rt.job, logs),
                                                  rt.job, Int2Rat(100)),
                                rt.job, Entry("Export completed successfully!", ""))
             /\ rt' = [rt EXCEPT !.pc = "cleanup"]
             /\ hist' = [Reported(Int2Rat(100)) EXCEPT !.written = @ \cup {rt.job}]
    /\ UNCHANGED <<queue, lock, clock, el, wpc, resp>>

OutputUrl == "/api/download/export"

RenderCleanup ==
    /\ rt.pc = "cleanup"
    /\ \E out \in StageOutcomes :
        IF out = "raise"
        THEN /\ LockAvailable(lock, "render")
             /\ ExportRaises("cleanup", PrimitiveError("cleanup"), <<>>, hist)
        ELSE /\ rt' = [rt EXCEPT !.pc = "returned", !.output = OutputUrl]
             /\ UNCHANGED <<jobs, hist>>
    /\ UNCHANGED <<queue, lock, clock, el, wpc, resp>>

Render ==
    \/ RenderStart
    \/ RenderClip
    \/ RenderConcat
    \/ RenderResize
    \/ RenderAudio
    \/ RenderEncode
    \/ RenderCleanup

\* ------------------------------------------- video_processor.py, geometry
\* int(a * (num / den)) as the code computes it, in IEEE double arithmetic:
\* the floor of a*num/den, except for the operands listed here (all there
\* are among the inputs below), where the quotient is rounded down and the
\* product falls just under the integer a*num/den
RoundsBelow ==
    {<<180, 35, 100>>, <<720, 35, 100>>, <<854, 480, 854>>, <<854, 1920, 854>>,
     <<539, 400, 539>>, <<145, 400, 464>>}

IntOfProduct(a, num, den) ==
    IF <<a, num, den>> \in RoundsBelow
    THEN (a * num) \div den - 1
    ELSE (a * num) \div den

QUALITY_SETTINGS ==
    [low |-> [width |-> 854, height |-> 480, fps |-> 24],
     optimised |-> [width |-> 1280, height |-> 720, fps |-> 30],
     high |-> [width |-> 1920, height |-> 1080, fps |-> 30]]

Min(a, b) == IF a <= b THEN a ELSE b

\* the target frame of resize_to_aspect_ratio
target_size_unswapped(aspect_ratio, quality) ==
    LET qs == QUALITY_SETTINGS[quality] IN
    IF aspect_ratio \in {"16:9", "9:16"} THEN <<qs.width, qs.height>>
    ELSE <<Min(qs.width, qs.height), Min(qs.width, qs.height)>>
target_size(aspect_ratio, quality) ==
    LET qs == QUALITY_SETTINGS[quality] IN
    IF aspect_ratio = "16:9" THEN <<qs.width, qs.height>>
    ELSE IF aspect_ratio = "9:16" THEN <<qs.height, qs.width>>
    ELSE <<Min(qs.width, qs.height), Min(qs.width, qs.height)>>

\* resize_to_aspect_ratio for a clip of size w x h: the background size,
\* the size of the resized clip and its position on the background
resize_to_aspect_ratio_max_scale(w, h, aspect_ratio, quality) ==
    LET target == target_size(aspect_ratio, quality)
        by_width == target[1] * h >= target[2] * w
        num == IF by_width THEN target[1] ELSE target[2]
        den == IF by_width THEN w ELSE h
        new_width == IntOfProduct(w, num, den)
        new_height == IntOfProduct(h, num, den)
    IN  [target |-> target,
         size |-> <<new_width, new_height>>,
         pos |-> <<(target[1] - new_width) \div 2, (target[2] - new_height) \div 2>>]
resize_to_aspect_ratio(w, h, aspect_ratio, quality) ==
    LET target == target_size(aspect_ratio, quality)
        \* scale = min(scale_w, scale_h), kept as the quotient num/den
        by_width == target[1] * h <= target[2] * w
        num == IF by_width THEN target[1] ELSE target[2]
        den == IF by_width THEN w ELSE h
        new_width == IntOfProduct(w, num, den)
        new_height == IntOfProduct(h, num, den)
    IN  [target |-> target,
         size |-> <<new_width, new_height>>,
         pos |-> <<(target[1] - new_width) \div 2, (target[2] - new_height) \div 2>>]

\* a clip whose fps is None (or 0): `clip.fps or ...` takes the other operand
NoFps == 0

\* resize_to_aspect_ratio: final_clip.set_fps(clip.fps or quality_settings["fps"])
set_fps(clip_fps, quality) ==
    IF clip_fps # NoFps THEN clip_fps ELSE QUALITY_SETTINGS[quality].fps

\* write_videofile(..., fps=fps) of the media library: the frame rate of
\* the file is the fps argument, and the clip's own fps only without one
write_videofile(clip_fps, fps) == IF fps # NoFps THEN fps ELSE clip_fps

\* process_export from the concatenated timeline to the file: the fps of
\* the resized timeline and the frame rate of the encoded artifact
export_fps(source_fps, quality) ==
    LET final_video == set_fps(source_fps, quality)
    IN  [timeline |-> final_video,
         artifact |-> write_videofile(final_video, QUALITY_SETTINGS[quality].fps)]

ImageOverlay(width, from_top, from_start) ==
    [percentage_width |-> width, percentage_from_top |-> from_top,
     percentage_from_start |-> from_start]

\* process_overlay_image: an image larger than 400 x 400 is scaled down
\* into that box, the others are kept
process_overlay_image_max_scale(image) ==
    IF image[1] > 400 \/ image[2] > 400
    THEN LET by_width == image[2] >= image[1]
             den == IF by_width THEN image[1] ELSE image[2]
         IN  <<IntOfProduct(image[1], 400, den), IntOfProduct(image[2], 400, den)>>
    ELSE image
process_overlay_image(image) ==
    IF image[1] > 400 \/ image[2] > 400
    THEN LET by_width == image[2] <= image[1]
             den == IF by_width THEN image[1] ELSE image[2]
         IN  <<IntOfProduct(image[1], 400, den), IntOfProduct(image[2], 400, den)>>
    ELSE image

\* create_image_overlay_clip for an image of the given size on a clip of
\* video_width x video_height.  overlay_height is computed and not used;
\* ImageClip.resize(width=w) of the media library keeps the aspect ratio
\* of the image: the new size is (w, int(h * w / image_w)).
create_image_overlay_clip(overlay, video_width, video_height, image) ==
    LET processed == process_overlay_image(image)
        overlay_width == IntOfProduct(video_width, overlay.percentage_width, 100)
        overlay_height == overlay_width
        x_pos == IntOfProduct(video_width, overlay.percentage_from_start, 100)
        y_pos == IntOfProduct(video_height, overlay.percentage_from_top, 100)
    IN  [size |-> <<overlay_width, (processed[2] * overlay_width) \div processed[1]>>,
         pos |-> <<x_pos, y_pos>>]

\* inputs of the geometry specification
SourceSizes ==
    {<<1280, 720>>, <<1920, 1080>>, <<640, 480>>, <<720, 1280>>, <<854, 480>>,
     <<480, 480>>, <<1, 1>>, <<4096, 2160>>, <<100, 2000>>, <<3000, 7>>}
AspectRatios == {"16:9", "9:16", "1:1"}
Qualities == {"low", "optimised", "high"}
ClipSizes == {<<320, 180>>, <<1280, 720>>, <<180, 320>>}
Percentages == {0, 20, 30, 35, 50, 100}
ImageSizes == {<<100, 100>>, <<200, 100>>, <<100, 200>>, <<600, 400>>}
SourceFps == {NoFps, 24, 25, 30, 60}
OverlayImageSizes ==
    {<<1, 1>>, <<100, 100>>, <<400, 400>>, <<401, 300>>, <<600, 400>>,
     <<123, 457>>, <<1000, 3000>>, <<4000, 3000>>, <<539, 539>>, <<464, 145>>,
     <<1000, 2>>}

\* a call of resize_to_aspect_ratio and what it returned; the geometry
\* specification makes one call per behaviour
Resize(source, aspect_ratio, quality) ==
    /\ hist.calls = 0
    /\ resp' = [op |-> "resize_to_aspect_ratio", id |-> NoJob, code |-> 0,
                args |-> [source |-> source, aspect_ratio |-> aspect_ratio,
                          quality |-> quality],
                result |-> resize_to_aspect_ratio(source[1], source[2],
                                                  aspect_ratio, quality)]
    /\ hist' = [hist EXCEPT !.calls = @ + 1]
    /\ UNCHANGED <<jobs, queue, lock, clock, el, wpc, rt>>

\* a call of create_image_overlay_clip and what it returned
ImageOverlayClip(overlay, clip, image) ==
    /\ hist.calls = 0
    /\ resp' = [op |-> "create_image_overlay_clip", id |-> NoJob, code |-> 0,
                args |-> [overlay |-> overlay, clip |-> clip, image |-> image],
                result |-> create_image_overlay_clip(overlay, clip[1], clip[2], image)]
    /\ hist' = [hist EXCEPT !.calls = @ + 1]
    /\ UNCHANGED <<jobs, queue, lock, clock, el, wpc, rt>>

\* a call of process_overlay_image and the size of the image it returned
ProcessOverlayImage(image) ==
    /\ hist.calls = 0
    /\ resp' = [op |-> "process_overlay_image", id |-> NoJob, code |-> 0,
                args |-> [image |-> image],
                result |-> process_overlay_image(image)]
    /\ hist' = [hist EXCEPT !.calls = @ + 1]
    /\ UNCHANGED <<jobs, queue, lock, clock, el, wpc, rt>>

\* the resize and encode steps of process_export on a timeline of the given
\* fps, and the frame rates they produce
Encode(source_fps, quality) ==
    /\ hist.calls = 0
    /\ resp' = [op |-> "write_videofile", id |-> NoJob, code |-> 0,
                args |-> [fps |-> source_fps, quality |-> quality],
                result |-> export_fps(source_fps, quality)]
    /\ hist' = [hist EXCEPT !.calls = @ + 1]
    /\ UNCHANGED <<jobs, queue, lock, clock, el, wpc, rt>>

NextGeometry ==
    \/ \E source \in SourceSizes, aspect_ratio \in AspectRatios, quality \in Qualities :
          Resize(source, aspect_ratio, quality)
    \/ \E width \in Percentages, from_top \in Percentages, from_start \in Percentages,
          clip \in ClipSizes, image \in ImageSizes :
          ImageOverlayClip(ImageOverlay(width, from_top, from_start), clip, image)
    \/ \E source_fps \in SourceFps, quality \in Qualities : Encode(source_fps, quality)
    \/ \E image \in OverlayImageSizes : ProcessOverlayImage(image)

SpecGeometry == Init /\ [][NextGeometry]_vars

\* ------------------------------------------------------- specifications
\* the service with plain one-clip requests: scheduling and cancellation
Next ==
    \/ StartExport(SchedRequests, MaxJobs)
    \/ \E id \in 1..MaxJobs : CancelEndpoint(id)
    \/ WorkerPoll
    \/ WorkerFinish
    \/ Render

Spec == Init /\ [][Next]_vars

\* the service from the moment one export request of any shape has been
\* accepted: the composition engine
InitEngine ==
    /\ \E request \in EngineRequests :
        jobs = create_job(<<>>, <<>>, 1, request, 0).jobs
    /\ queue = <<1>>
    /\ lock = "free"
    /\ clock = 1
    /\ el = "idle"
    /\ wpc = "sleep"
    /\ rt = RenderIdle
    /\ resp = Resp("create_job", 1, 200)
    /\ hist = Hist0

NextEngine ==
    \/ \E id \in DOMAIN jobs : CancelEndpoint(id)
    \/ WorkerPoll
    \/ WorkerFinish
    \/ Render

SpecEngine == InitEngine /\ [][NextEngine]_vars

\* --------------------------------------------- create_job in its two steps
\* POST /api/export with create_job taken apart: the locked section that
\* stores the job and appends its id, and the add_log call after it.  Both
\* run on thread "main" inside one endpoint call without an await, so the
\* worker coroutine cannot run in between (el is "create_job"); the render
\* thread can.
CreateJobLocked(requests, bound) ==
    /\ LoopFree
    /\ LockAvailable(lock, "main")
    /\ NextId <= bound
    /\ \E request \in requests :
        LET id == NextId IN
        /\ jobs' = jobs @@ (id :> Job(id, request, clock))
        /\ queue' = Append(queue, id)
        /\ resp' = Resp("create_job", id, 0)
    /\ el' = "create_job"
    /\ clock' = clock + 1
    /\ UNCHANGED <<lock, wpc, rt, hist>>

CreateJobLog ==
    /\ el = "create_job"
    /\ LockAvailable(lock, "main")
    /\ jobs' = add_log(jobs, resp.id, Entry("Job created and added to queue", ""))
    /\ resp' = Resp("create_job", resp.id, 200)
    /\ el' = "idle"
    /\ UNCHANGED <<queue, lock, clock, wpc, rt, hist>>

NextCreate ==
    \/ CreateJobLocked(SchedRequests, MaxJobs)
    \/ CreateJobLog
    \/ WorkerPoll
    \/ WorkerFinish
    \/ Render

SpecCreate == Init /\ [][NextCreate]_vars

\* ------------------------------------------- the job store called directly
\* JobQueue's methods called one after the other by a single thread with
\* any arguments, known and unknown ids included.
StoreIds == 1..(MaxStoreJobs + 1)
StoreRequests == {ExportRequest(<<PlainClip("ok")>>, <<>>)}
ProgressInputs == {-10, 10, 40, 150}

CallReady ==
    /\ el = "idle"
    /\ LockAvailable(lock, "main")
    /\ hist.calls < MaxCalls

Called == [hist EXCEPT !.calls = @ + 1]

Call_create_job ==
    /\ CallReady
    /\ NextId <= MaxStoreJobs
    /\ \E request \in StoreRequests :
        LET id == NextId
            r == create_job(jobs, queue, id, request, clock)
        IN  /\ jobs' = r.jobs
            /\ queue' = r.queue
            /\ resp' = Resp("create_job", id, 0)
    /\ clock' = clock + 1
    /\ hist' = Called
    /\ UNCHANGED <<lock, el, wpc, rt>>

Call_get_next_job ==
    /\ CallReady
    /\ LET r == get_next_job(jobs, queue) IN
        /\ queue' = r.queue
        /\ resp' = Resp("get_next_job", r.job, 0)
        /\ hist' = [Called EXCEPT !.dequeued =
                        IF r.job # NoJob THEN Append(@, r.job) ELSE @]
    /\ UNCHANGED <<jobs, lock, clock, el, wpc, rt>>

Call_update_job(id, status) ==
    /\ CallReady
    /\ jobs' = update_job(jobs, id, [status |-> status])
    /\ resp' = Resp("update_job", id, 0)
    /\ hist' = Called
    /\ UNCHANGED <<queue, lock, clock, el, wpc, rt>>

Call_add_log(id) ==
    /\ CallReady
    /\ jobs' = add_log(jobs, id, Entry("message", ""))
    /\ resp' = Resp("add_log", id, 0)
    /\ hist' = Called
    /\ UNCHANGED <<queue, lock, clock, el, wpc, rt>>

Call_set_progress(id, value) ==
    /\ CallReady
    /\ jobs' = set_progress(jobs, id, Int2Rat(value))
    /\ resp' = Resp("set_progress", id, value)
    /\ hist' = Called
    /\ UNCHANGED <<queue, lock, clock, el, wpc, rt>>

Call_complete_job(id) ==
    /\ CallReady
    /\ jobs' = complete_job(jobs, id, OutputUrl, clock)
    /\ resp' = Resp("complete_job", id, 0)
    /\ clock' = clock + 1
    /\ hist' = Called
    /\ UNCHANGED <<queue, lock, el, wpc, rt>>

Call_fail_job(id) ==
    /\ CallReady
    /\ jobs' = fail_job(jobs, id, PrimitiveError("encode"), clock)
    /\ resp' = Resp("fail_job", id, 0)
    /\ clock' = clock + 1
    /\ hist' = Called
    /\ UNCHANGED <<queue, lock, el, wpc, rt>>

Call_cancel_job(id) ==
    /\ CallReady
    /\ LET r == cancel_job(jobs, queue, id, clock, "main") IN
        /\ jobs' = r.jobs
        /\ queue' = r.queue
        /\ lock' = r.lock
        /\ el' = IF r.returned THEN "idle" ELSE "blocked"
        /\ resp' = Resp("cancel_job", id, IF r.returned THEN 1 ELSE 0)
        /\ hist' = [Called EXCEPT !.cancelled = IF r.acted THEN @ \cup {id} ELSE @]
    /\ clock' = clock + 1
    /\ UNCHANGED <<wpc, rt>>

NextStore ==
    \/ Call_create_job
    \/ Call_get_next_job
    \/ \E id \in StoreIds : Call_update_job(id, PROCESSING)
    \/ \E id \in StoreIds : Call_add_log(id)
    \/ \E id \in StoreIds, value \in ProgressInputs : Call_set_progress(id, value)
    \/ \E id \in StoreIds : Call_complete_job(id)
    \/ \E id \in StoreIds : Call_fail_job(id)
    \/ \E id \in StoreIds : Call_cancel_job(id)

SpecStore == Init /\ [][NextStore]_vars

\* ------------------------------------------------ the job listing
\* Any population of jobs the store's methods produce: jobs are created and
\* update_job gives them any status; GET /api/jobs lists them.
ListReady ==
    /\ el = "idle"
    /\ LockAvailable(lock, "main")

List_create_job ==
    /\ ListReady
    /\ NextId <= MaxListJobs
    /\ \E request \in StoreRequests :
        LET id == NextId
            r == create_job(jobs, queue, id, request, clock)
        IN  /\ jobs' = r.jobs
            /\ queue' = r.queue
            /\ resp' = Resp("create_job", id, 0)
    /\ clock' = clock + 1
    /\ UNCHANGED <<lock, el, wpc, rt, hist>>

List_update_job(id, status) ==
    /\ ListReady
    /\ jobs' = update_job(jobs, id, [status |-> status])
    /\ resp' = Resp("update_job", id, 0)
    /\ UNCHANGED <<queue, lock, clock, el, wpc, rt, hist>>

\* GET /api/jobs: the ids of get_all_jobs() in the order of the response
GetAllJobs ==
    /\ el = "idle"
    /\ LET listed == get_all_jobs(jobs) IN
        resp' = [op |-> "get_all_jobs", id |-> NoJob, code |-> 200,
                 body |-> [k \in 1..Len(listed) |-> listed[k].id]]
    /\ UNCHANGED <<jobs, queue, lock, clock, el, wpc, rt, hist>>

NextListing ==
    \/ List_create_job
    \/ \E id \in 1..MaxListJobs, status \in JobStatus : List_update_job(id, status)
    \/ GetAllJobs

SpecListing == Init /\ [][NextListing]_vars

\* the service under the scheduling its runtime gives: a runnable worker
\* segment is run and the render thread keeps going while it can
FairSpec ==
    /\ Spec
    /\ WF_vars(WorkerPoll)
    /\ WF_vars(WorkerFinish)
    /\ WF_vars(Render)

\* ----------------------------------------------------------------- claims
JobIds == DOMAIN jobs
WithStatus(status) == {id \in JobIds : jobs[id].status = status}
HasEntry(id, entry) == \E k \in 1..Len(jobs[id].logs) : jobs[id].logs[k] = entry
Finalized(id) == id \in Range(hist.exported) /\ rt.job # id

\* C1: in every reachable state at most one job has status PROCESSING.
C1_AtMostOneProcessing == Cardinality(WithStatus(PROCESSING)) <= 1

C1_Witness ==
    /\ Cardinality(WithStatus(PROCESSING)) = 1
    /\ WithStatus(PENDING) # {}
    /\ Len(hist.started) >= 2

\* C2: cancel_job called on a PENDING job returns to its caller, and then
\* the job is FAILED, has completed_at set, has the cancellation entry in
\* its log and its id is no longer in the queue.
C2_CancelPendingReturns ==
    \A id \in hist.cancelled :
        /\ el = "idle"
        /\ jobs[id].status = FAILED
        /\ jobs[id].completed_at # NoTime
        /\ HasEntry(id, Entry("Job cancelled by user", ""))
        /\ ~InQueue(queue, id)

\* C3: jobs A, B, C created in this order and B cancelled before any
\* dequeue: the next two get_next_job calls return A and then C.
C3_Scenario ==
    /\ JobIds = {1, 2, 3}
    /\ hist.cancelled = {2}
    /\ hist.dequeued = <<>>

C3_FifoWithSkip ==
    C3_Scenario ~>
        \/ /\ Len(hist.dequeued) >= 2
           /\ hist.dequeued[1] = 1
           /\ hist.dequeued[2] = 3
        \/ hist.cancelled # {2}

\* C4: cancel_job on an unknown id or on a job that is PROCESSING, COMPLETED
\* or FAILED changes no job, not the queue and not the running render, and
\* returns.
C4_CancelGuard ==
    [][(/\ resp'.op = "cancel_job"
        /\ hist'.calls # hist.calls
        /\ ~(resp'.id \in JobIds /\ jobs[resp'.id].status = PENDING))
       => (/\ jobs' = jobs
           /\ queue' = queue
           /\ rt' = rt
           /\ lock' = lock
           /\ el' = "idle")]_vars

C4_Witness ==
    /\ resp.op = "cancel_job"
    /\ resp.id \in JobIds
    /\ resp.id \notin hist.cancelled
    /\ jobs[resp.id].status = PROCESSING
    /\ InQueue(queue, resp.id)

\* C5: jobs become PROCESSING in the order of their creation.
C5_StartedInCreationOrder ==
    \A a, b \in 1..Len(hist.started) :
        a < b => jobs[hist.started[a]].created_at < jobs[hist.started[b]].created_at

C5_Witness ==
    /\ Len(hist.started) >= 2
    /\ WithStatus(PENDING) # {}

\* C6: a job cancelled while PENDING is never PROCESSING or COMPLETED
\* afterwards and process_export is never invoked for it.
C6_CancelledNeverRuns ==
    \A id \in hist.cancelled :
        /\ jobs[id].status \notin {PROCESSING, COMPLETED}
        /\ id \notin Range(hist.started)
        /\ id \notin Range(hist.exported)
        /\ rt.job # id

C6_Witness ==
    /\ hist.cancelled # {}
    /\ rt.pc = "raised"
    /\ \E id \in hist.cancelled : InQueue(queue, id) /\ Head(queue) = id

\* C7 as stated: whatever set_progress calls a job receives, its stored
\* progress never decreases and stays within 0..100.
C7_ProgressMonotoneBounded ==
    [][\A id \in JobIds :
         /\ RatLeq(jobs[id].progress, jobs'[id].progress)
         /\ RatLeq(Int2Rat(0), jobs'[id].progress)
         /\ RatLeq(jobs'[id].progress, Int2Rat(100))]_vars

\* C7 as amended: whatever set_progress calls a job receives, its stored
\* progress never exceeds 100.
C7_ProgressNeverExceeds100 ==
    \A id \in JobIds : RatLeq(jobs[id].progress, Int2Rat(100))

C7_Witness ==
    /\ resp.op = "set_progress"
    /\ resp.code = 150
    /\ resp.id \in JobIds
    /\ jobs[resp.id].status = PROCESSING
    /\ jobs[resp.id].progress = Int2Rat(100)

\* C8: an export whose only clip does not resolve to a file goes
\* PENDING -> PROCESSING -> FAILED, its log gets the error text, and it is
\* never COMPLETED.
SoleClipMissing(id) ==
    /\ Len(jobs[id].request.clips) = 1
    /\ jobs[id].request.clips[1].video_url = "missing"

C8_MissingClipFails ==
    \A id \in JobIds : SoleClipMissing(id) =>
        /\ jobs[id].status # COMPLETED
        /\ jobs[id].output_url = NoUrl
        /\ (rt.job = id => jobs[id].status = PROCESSING)
        /\ (Finalized(id) =>
              /\ jobs[id].status = FAILED
              /\ HasEntry(id, Entry("Job failed: ", NotFoundError)))
        /\ (jobs[id].status = FAILED /\ id \notin hist.cancelled => Finalized(id))

C8_Witness ==
    \E id \in JobIds :
        /\ SoleClipMissing(id)
        /\ Finalized(id)
        /\ jobs[id].status = FAILED

\* C9: an overlay that fails to build is logged as a warning and dropped,
\* the clip keeps every overlay that was built, and the export does not
\* fail because of it: a finalized job is FAILED only when a clip did not
\* resolve or a media primitive raised.
OverlayWarnings(id) ==
    Cardinality({k \in 1..Len(jobs[id].logs) :
        jobs[id].logs[k].msg \in {"Warning: Failed to add text overlay: ",
                                  "Warning: Failed to add image overlay: "}})

BadOverlays(c) ==
    Cardinality({k \in 1..Len(c.text_overlays) : c.text_overlays[k] = "bad"})
    + Cardinality({k \in 1..Len(c.image_overlays) : c.image_overlays[k] = "bad"})

HasLayer(clip, layer) == \E k \in 1..Len(clip) : clip[k] = layer

C9_OverlayFailureIsolated ==
    /\ \A k \in 1..Len(rt.processed) :
        LET c == jobs[rt.job].request.clips[k] IN
        /\ \A m \in 1..Len(c.text_overlays) :
              HasLayer(rt.processed[k], Layer("text", m)) <=> c.text_overlays[m] = "ok"
        /\ \A m \in 1..Len(c.image_overlays) :
              HasLayer(rt.processed[k], Layer("image", m)) <=> c.image_overlays[m] = "ok"
        /\ HasLayer(rt.processed[k], Layer("base", k))
    /\ \A id \in JobIds :
        /\ (id \in DOMAIN hist.fault => hist.fault[id].stage # "overlay")
        /\ (Finalized(id) =>
              /\ jobs[id].status = COMPLETED <=> id \notin DOMAIN hist.fault
              /\ (jobs[id].status = COMPLETED /\ Len(jobs[id].request.clips) = 1
                    => OverlayWarnings(id) = BadOverlays(jobs[id].request.clips[1])))

C9_Witness ==
    \E id \in JobIds :
        /\ Finalized(id)
        /\ jobs[id].status = COMPLETED
        /\ jobs[id].request.clips = <<ClipRequest("ok", <<"ok">>, <<"bad">>)>>
        /\ OverlayWarnings(id) = 1

\* C10: when any stage of process_export raises, the worker leaves the job
\* FAILED with no output_url, completed_at set, the progress last reported
\* and a log entry that carries the exception's text.
LastReported(id) ==
    IF id \in DOMAIN hist.progress
    THEN hist.progress[id][Len(hist.progress[id])]
    ELSE Int2Rat(0)

C10_StageFailureFailsJob ==
    \A id \in DOMAIN hist.fault : Finalized(id) =>
        /\ jobs[id].status = FAILED
        /\ jobs[id].output_url = NoUrl
        /\ jobs[id].completed_at # NoTime
        /\ jobs[id].progress = LastReported(id)
        /\ HasEntry(id, Entry("Job failed: ", hist.fault[id].err))
        /\ HasEntry(id, Entry("Export failed: ", hist.fault[id].err))

C10_Witness ==
    \E id \in DOMAIN hist.fault :
        /\ Finalized(id)
        /\ hist.fault[id].stage = "cleanup"
        /\ jobs[id].status = FAILED
        /\ RatEq(jobs[id].progress, Int2Rat(100))

\* C11: after a job has ended FAILED, a job that is PENDING in the queue is
\* eventually dequeued and flipped to PROCESSING (unless it is cancelled
\* itself): the worker loop goes on polling.
C11_LoopSurvivesFailure ==
    \A y \in 1..MaxJobs :
        (/\ WithStatus(FAILED) # {}
         /\ y \in JobIds
         /\ jobs[y].status = PENDING
         /\ InQueue(queue, y))
        ~> (y \in Range(hist.started) \/ y \in hist.cancelled)

\* C12: every job that is created and not cancelled eventually is COMPLETED
\* or FAILED, whatever create_job and cancel_job calls on other jobs are
\* interleaved.
C12_EveryJobEnds ==
    \A id \in 1..MaxJobs :
        (id \in JobIds)
        ~> (id \in JobIds /\ jobs[id].status \in {COMPLETED, FAILED})

\* C13: a step that creates a job stores it under a fresh id with status
\* PENDING, progress 0, completed_at and output_url unset, a log of exactly
\* the creation entry and the request, appends the id at the tail of the
\* queue and leaves every other job as it was.
C13_CreateJobPostcondition ==
    [][DOMAIN jobs' # DOMAIN jobs =>
        LET id == resp'.id IN
        /\ resp'.op = "create_job"
        /\ id \notin DOMAIN jobs
        /\ DOMAIN jobs' = DOMAIN jobs \cup {id}
        /\ jobs'[id].id = id
        /\ jobs'[id].status = PENDING
        /\ jobs'[id].progress = Int2Rat(0)
        /\ jobs'[id].completed_at = NoTime
        /\ jobs'[id].output_url = NoUrl
        /\ jobs'[id].logs = <<Entry("Job created and added to queue", "")>>
        /\ jobs'[id].request \in SchedRequests
        /\ queue' = Append(queue, id)
        /\ \A other \in DOMAIN jobs : jobs'[other] = jobs[other]]_vars

C13_Witness ==
    /\ resp.op = "create_job"
    /\ resp.id \in JobIds
    /\ Len(queue) >= 2
    /\ queue[Len(queue)] = resp.id
    /\ WithStatus(PROCESSING) # {}
    /\ jobs[resp.id].status = PENDING
    /\ Len(jobs[resp.id].logs) = 1

\* C14: in every reachable state get_queue_stats returns counts with
\* pending + processing + completed + failed = total = number of stored
\* jobs, each count being the number of jobs in that status.
C14_StatsInvariant ==
    LET stats == get_queue_stats(jobs) IN
    /\ stats.pending + stats.processing + stats.completed + stats.failed
         = stats.total
    /\ stats.total = Cardinality(JobIds)
    /\ \A status \in JobStatus : stats[status] = Cardinality(WithStatus(status))

C14_Witness ==
    /\ Cardinality(WithStatus(FAILED)) = 1
    /\ Cardinality(WithStatus(COMPLETED)) = 1
    /\ Cardinality(WithStatus(PROCESSING)) = 1
    /\ get_queue_stats(jobs).total = 3

\* C15: get_all_jobs lists every stored job exactly once, by status
\* priority processing < pending < completed < failed and, within one
\* status, by created_at ascending; {A:FAILED@t1, B:PENDING@t2,
\* C:PROCESSING@t3, D:PENDING@t4} lists as [C, B, D, A].
ListPriority ==
    (PROCESSING :> 0) @@ (PENDING :> 1) @@ (COMPLETED :> 2) @@ (FAILED :> 3)

ListingExample ==
    /\ JobIds = {1, 2, 3, 4}
    /\ jobs[1].status = FAILED
    /\ jobs[2].status = PENDING
    /\ jobs[3].status = PROCESSING
    /\ jobs[4].status = PENDING
    /\ jobs[1].created_at < jobs[2].created_at
    /\ jobs[2].created_at < jobs[3].created_at
    /\ jobs[3].created_at < jobs[4].created_at

C15_ListingOrder ==
    resp.op = "get_all_jobs" =>
        LET ids == resp.body IN
        /\ Len(ids) = Cardinality(JobIds)
        /\ Range(ids) = JobIds
        /\ \A a, b \in 1..Len(ids) : a < b =>
              \/ ListPriority[jobs[ids[a]].status] < ListPriority[jobs[ids[b]].status]
              \/ /\ jobs[ids[a]].status = jobs[ids[b]].status
                 /\ jobs[ids[a]].created_at < jobs[ids[b]].created_at
        /\ (ListingExample => ids = <<3, 2, 4, 1>>)

C15_Witness ==
    /\ resp.op = "get_all_jobs"
    /\ ListingExample
    /\ resp.body = <<3, 2, 4, 1>>

\* C16: the cancel endpoint answers success only for a job that exists and
\* is PENDING at the call; for a PROCESSING, COMPLETED or FAILED job it
\* answers 400, for an unknown id 404, and in both error cases no job and
\* not the queue changes.
C16_CancelEndpointResponses ==
    [][\A id \in 1..MaxJobs : CancelEndpoint(id) =>
        /\ resp'.op = "cancel_job"
        /\ (resp'.code = 200 => id \in JobIds /\ jobs[id].status = PENDING)
        /\ (id \notin JobIds =>
              resp'.code = 404 /\ jobs' = jobs /\ queue' = queue /\ lock' = lock)
        /\ (id \in JobIds /\ jobs[id].status # PENDING =>
              resp'.code = 400 /\ jobs' = jobs /\ queue' = queue /\ lock' = lock)
        /\ (id \in JobIds /\ jobs[id].status = PENDING =>
              resp'.code \notin {400, 404})]_vars

C16_Witness ==
    /\ resp.op = "cancel_job"
    /\ resp.code = 400
    /\ WithStatus(PENDING) # {}
    /\ WithStatus(PENDING) \cup WithStatus(PROCESSING) # JobIds
    /\ hist.cancelled = {}

\* C17: in every reachable state a job's completed_at is set if and only
\* if its status is COMPLETED or FAILED, and once set it never changes.
C17_CompletedAtSetOnce ==
    /\ [](\A id \in JobIds :
            jobs[id].completed_at # NoTime <=> jobs[id].status \in {COMPLETED, FAILED})
    /\ [][\A id \in JobIds :
            jobs[id].completed_at # NoTime
                => jobs'[id].completed_at = jobs[id].completed_at]_vars

C17_Witness ==
    /\ \E id \in WithStatus(COMPLETED) : jobs[id].completed_at # NoTime
    /\ \E id \in WithStatus(FAILED) :
          jobs[id].completed_at # NoTime /\ id \in hist.cancelled
    /\ \E id \in WithStatus(FAILED) :
          jobs[id].completed_at # NoTime /\ id \notin hist.cancelled

\* C18: in every reachable state a job's output_url is set if and only if
\* its status is COMPLETED, and every COMPLETED job has progress 100.
C18_OutputOnlyWhenCompleted ==
    \A id \in JobIds :
        /\ jobs[id].output_url # NoUrl <=> jobs[id].status = COMPLETED
        /\ (jobs[id].status = COMPLETED => jobs[id].progress = Int2Rat(100))

C18_Witness ==
    /\ \E id \in WithStatus(COMPLETED) : jobs[id].output_url = OutputUrl
    /\ \E id \in WithStatus(FAILED) :
          id \in DOMAIN hist.fault /\ jobs[id].output_url = NoUrl
    /\ WithStatus(PROCESSING) # {}

\* C19: a job's progress is above 80 only after write_videofile has
\* returned for it: when the write fails or is never reached the progress
\* stays at most 80 for the rest of the job's lifetime.
C19_HundredOnlyAfterWrite ==
    \A id \in JobIds :
        id \notin hist.written => RatLeq(jobs[id].progress, Int2Rat(80))

C19_Witness ==
    \E id \in JobIds :
        /\ Finalized(id)
        /\ id \in DOMAIN hist.fault
        /\ hist.fault[id].stage = "encode"
        /\ jobs[id].status = FAILED
        /\ jobs[id].progress = Int2Rat(80)

\* C20: while a render is in flight the store's lock is not held between
\* two calls and the request path is not blocked, whatever create_job and
\* cancel_job calls on other jobs were made meanwhile.
C20_RenderNeverBlocksRequests ==
    rt.pc \notin {"idle"} => (lock = "free" /\ el = "idle")

\* C21: a job that shows status FAILED already has the entry with the
\* failure or the cancellation text in its log, and a job that shows
\* COMPLETED already has the success entry.
HasFailureText(id) ==
    \/ HasEntry(id, Entry("Job cancelled by user", ""))
    \/ \E k \in 1..Len(jobs[id].logs) : jobs[id].logs[k].msg = "Job failed: "

C21_ConsistentSnapshot ==
    \A id \in JobIds :
        /\ (jobs[id].status = FAILED => HasFailureText(id))
        /\ (jobs[id].status = COMPLETED =>
              HasEntry(id, Entry("Job completed successfully", "")))

\* C22: resize_to_aspect_ratio takes the preset (W,H) for 16:9, (H,W) for
\* 9:16 and the min(W,H) square for 1:1 as target, scales the source by
\* min(targetW/srcW, targetH/srcH) (truncated to whole pixels) and centers
\* it; 1280x720 with 9:16 optimised gives target 720x1280, content 720x405
\* at (0, 437).
C22_ResizeGeometry ==
    resp.op = "resize_to_aspect_ratio" =>
        LET a == resp.args
            r == resp.result
            W == QUALITY_SETTINGS[a.quality].width
            H == QUALITY_SETTINGS[a.quality].height
            srcW == a.source[1]
            srcH == a.source[2]
            tW == r.target[1]
            tH == r.target[2]
            \* the scale num/den = min(tW/srcW, tH/srcH)
            num == IF tW * srcH <= tH * srcW THEN tW ELSE tH
            den == IF tW * srcH <= tH * srcW THEN srcW ELSE srcH
        IN  /\ (a.aspect_ratio = "16:9" => r.target = <<W, H>>)
            /\ (a.aspect_ratio = "9:16" => r.target = <<H, W>>)
            /\ (a.aspect_ratio = "1:1" => r.target = <<Min(W, H), Min(W, H)>>)
            /\ r.size[1] * den <= srcW * num
            /\ srcW * num <= (r.size[1] + 1) * den
            /\ r.size[2] * den <= srcH * num
            /\ srcH * num <= (r.size[2] + 1) * den
            /\ r.size[1] <= tW
            /\ r.size[2] <= tH
            /\ r.pos = <<(tW - r.size[1]) \div 2, (tH - r.size[2]) \div 2>>
            /\ (a = [source |-> <<1280, 720>>, aspect_ratio |-> "9:16",
                     quality |-> "optimised"]
                  => r = [target |-> <<720, 1280>>, size |-> <<720, 405>>,
                          pos |-> <<0, 437>>])

C22_Witness ==
    /\ resp.op = "resize_to_aspect_ratio"
    /\ resp.args = [source |-> <<1280, 720>>, aspect_ratio |-> "9:16",
                    quality |-> "optimised"]
    /\ resp.result.size = <<720, 405>>
    /\ resp.result.pos = <<0, 437>>

\* C23: the overlay rendered by create_image_overlay_clip is a square of
\* side floor(percentage_width/100 * W), whatever the image's aspect ratio,
\* anchored at (floor(percentage_from_start/100 * W),
\* floor(percentage_from_top/100 * H)); 30/20/35 on 320x180 gives 96x96
\* at (112, 36).
C23_OverlaySquare ==
    resp.op = "create_image_overlay_clip" =>
        LET a == resp.args
            r == resp.result
            side == (a.overlay.percentage_width * a.clip[1]) \div 100
        IN  /\ r.size = <<side, side>>
            /\ r.pos = <<(a.overlay.percentage_from_start * a.clip[1]) \div 100,
                         (a.overlay.percentage_from_top * a.clip[2]) \div 100>>
            /\ (a.overlay = ImageOverlay(30, 20, 35) /\ a.clip = <<320, 180>>
                  => r = [size |-> <<96, 96>>, pos |-> <<112, 36>>])

\* C24: get_next_job returns only a PENDING job, returns None only when no
\* id in the queue refers to a PENDING job, removes the returned id and
\* every id in front of it, and keeps the ids behind it in their order.
FirstPending(js, q) ==
    LET pending == {k \in 1..Len(q) : q[k] \in DOMAIN js /\ js[q[k]].status = PENDING}
    IN  IF pending = {} THEN 0
        ELSE CHOOSE k \in pending : \A m \in pending : k <= m

NoDuplicates(q) == \A a, b \in 1..Len(q) : a # b => q[a] # q[b]

C25_EnqueuedOnce ==
    /\ NoDuplicates(queue)
    /\ NoDuplicates(hist.dequeued)
    /\ NoDuplicates(hist.started)
    /\ NoDuplicates(hist.exported)

C25_Witness ==
    /\ Len(hist.started) >= 2
    /\ Len(queue) >= 1
    /\ rt.pc = "returned"

\* C26: in every reachable state every id in the queue has an entry in
\* the job map.
C26_QueueIdsStored == Range(queue) \subseteq DOMAIN jobs

C26_Witness ==
    /\ Len(queue) >= 2
    /\ hist.cancelled # {}
    /\ WithStatus(PROCESSING) # {}

\* C27: a job's log is append-only: at every step the old log is a prefix
\* of the new one.
IsPrefix(a, b) == Len(a) <= Len(b) /\ SubSeq(b, 1, Len(a)) = a

C27_LogAppendOnly ==
    [][\A id \in JobIds :
         id \in DOMAIN jobs' /\ IsPrefix(jobs[id].logs, jobs'[id].logs)]_vars

C27_Witness ==
    \E id \in WithStatus(COMPLETED) :
        /\ jobs[id].logs[1] = Entry("Job created and added to queue", "")
        /\ jobs[id].logs[2] = Entry("Starting processing...", "")
        /\ jobs[id].logs[Len(jobs[id].logs)] = Entry("Job completed successfully", "")
        /\ hist.cancelled # {}

\* C28: update_job, add_log, set_progress, complete_job and fail_job called
\* with an id that is not in the store leave the job map and the queue
\* unchanged.
C28_UnknownIdNoOp ==
    [][(/\ resp'.op \in {"update_job", "add_log", "set_progress",
                          "complete_job", "fail_job"}
        /\ hist'.calls # hist.calls
        /\ resp'.id \notin JobIds)
       => (jobs' = jobs /\ queue' = queue)]_vars

C28_Witness ==
    /\ resp.op = "complete_job"
    /\ resp.id \notin JobIds
    /\ JobIds # {}
    /\ queue # <<>>

\* C29: the progress callback of an export of n clips receives 50*1/n, ...,
\* 50, then 60, 70, 80, 100, in this order and non-decreasing; all of them
\* exactly when the write succeeded, the 80 with or without audio tracks,
\* and a clip's value only once the clip was processed.
ExpectedProgress(n) ==
    [k \in 1..(n + 4) |->
        IF k <= n THEN Rat(50 * k, n) ELSE Int2Rat(<<60, 70, 80, 100>>[k - n])]

C29_ProgressCheckpoints ==
    \A id \in DOMAIN hist.progress :
        LET n == Len(jobs[id].request.clips)
            got == hist.progress[id]
        IN  /\ Len(got) <= n + 4
            /\ \A k \in 1..Len(got) : got[k] = ExpectedProgress(n)[k]
            /\ \A a, b \in 1..Len(got) : a < b => RatLeq(got[a], got[b])
            /\ (id \in hist.written <=> Len(got) = n + 4)
            /\ (jobs[id].status = COMPLETED => Len(got) = n + 4)
            /\ (rt.job = id => Min(Len(got), n) <= Len(rt.processed))

C29_Witness ==
    \E id \in WithStatus(COMPLETED) :
        /\ Len(jobs[id].request.clips) = 2
        /\ Len(hist.progress[id]) = 6
        /\ hist.progress[id][1] = Rat(50, 2)

\* C30: the clip process_clip returns has the layers, bottom to top: the
\* base clip, each built text overlay exactly once in request order, each
\* built image overlay exactly once in request order.
C30_OverlayLayersOnce ==
    \A k \in 1..Len(rt.processed) :
        LET c == jobs[rt.job].request.clips[k] IN
        rt.processed[k] =
            <<Layer("base", k)>>
            \o Flatten(BuiltOverlays("text", c.text_overlays))
            \o Flatten(BuiltOverlays("image", c.image_overlays))

\* C31: the output timeline holds the processed clips in request order
\* whatever their track values are, clip i+1 is processed only after clip
\* i, and a single clip is used directly, without concatenation.
C31_TimelineInRequestOrder ==
    /\ \A k \in 1..Len(rt.processed) : rt.processed[k][1] = Layer("base", k)
    /\ rt.pc = "clip" => rt.i = Len(rt.processed) + 1
    /\ rt.final # <<>> =>
        /\ Len(rt.final.clips) = Len(jobs[rt.job].request.clips)
        /\ \A k \in 1..Len(rt.final.clips) : rt.final.clips[k][1] = Layer("base", k)
        /\ rt.final.concatenated <=> Len(jobs[rt.job].request.clips) # 1

\* two clips, the first on track 1 and the second on track 0, exported as
\* one concatenated timeline
C31_Witness ==
    /\ rt.pc = "returned"
    /\ jobs[rt.job].request.clips = <<TrackClip("ok", 1), TrackClip("ok", 0)>>
    /\ rt.final.concatenated

\* C32: an audio track whose file is not there or whose load raises is
\* skipped with one warning and does not fail the export; the mix layers
\* are the original audio first (when there is one) and then the loaded
\* tracks in request order; with no layer set_audio is not called.
AudioWarnings == {"Warning: Audio file not found: ", "Warning: Failed to add audio track: "}

LoadedTracks(tracks) ==
    LET idx == SelectSeq([k \in 1..Len(tracks) |-> k], LAMBDA k : tracks[k] = "ok")
    IN  [j \in 1..Len(idx) |-> Layer("track", idx[j])]

C32_AudioMix ==
    /\ rt.pc \in {"encode", "cleanup", "returned"} =>
        LET tracks == jobs[rt.job].request.audio_tracks
            logs == jobs[rt.job].logs
        IN  /\ rt.audio \in {LoadedTracks(tracks),
                              <<Layer("original", 0)>> \o LoadedTracks(tracks)}
            /\ Cardinality({k \in 1..Len(logs) : logs[k].msg \in AudioWarnings})
               = Cardinality({k \in 1..Len(tracks) : tracks[k] # "ok"})
    /\ \A id \in DOMAIN hist.fault :
        hist.fault[id].stage = "audio" =>
            /\ hist.fault[id].err = PrimitiveError("audio")
            /\ \A k \in 1..Len(jobs[id].logs) :
                   jobs[id].logs[k].msg = "Export failed: "
                   => jobs[id].logs[k].arg = PrimitiveError("audio")

\* an export returned with a track that failed to load skipped and the
\* original audio under the loaded track
C32_Witness ==
    /\ rt.pc = "returned"
    /\ jobs[rt.job].request.audio_tracks = <<"bad", "ok">>
    /\ rt.audio = <<Layer("original", 0), Layer("track", 2)>>

\* an export returned although none of its tracks exists: no mix is made
C32_WitnessNoLayer ==
    /\ rt.pc = "returned"
    /\ jobs[rt.job].request.audio_tracks = <<"missing", "missing">>
    /\ rt.audio = <<>>

\* C33: the frame rate of the encoded artifact is the fps of the source
\* timeline when that is known, and the fps of the quality preset only
\* when it is not.
C33_ArtifactFps ==
    resp.op = "write_videofile" =>
        resp.result.artifact =
            IF resp.args.fps # NoFps THEN resp.args.fps
            ELSE QUALITY_SETTINGS[resp.args.quality].fps

\* C34: for every source size and every aspect_ratio/quality combination
\* the scaled content is no wider and no higher than the target frame, both
\* centering offsets are >= 0 and the content lies inside the background.
C34_ContentInsideFrame ==
    resp.op = "resize_to_aspect_ratio" =>
        LET r == resp.result IN
        /\ r.size[1] <= r.target[1]
        /\ r.size[2] <= r.target[2]
        /\ r.pos[1] >= 0
        /\ r.pos[2] >= 0
        /\ r.pos[1] + r.size[1] <= r.target[1]
        /\ r.pos[2] + r.size[2] <= r.target[2]

\* a tall narrow source pillarboxed in a landscape frame
C34_Witness ==
    /\ resp.op = "resize_to_aspect_ratio"
    /\ resp.args.source = <<100, 2000>>
    /\ resp.args.aspect_ratio = "16:9"
    /\ resp.result.pos[1] > 0
    /\ resp.result.pos[2] = 0

\* C35: no call of a job-store method blocks on the store's lock: between
\* two calls the lock is free and the calling thread is not waiting for it.
C35_NoCallBlocksOnLock == lock = "free" /\ el # "blocked"

\* C36: a job's status changes only along PENDING -> PROCESSING,
\* PROCESSING -> COMPLETED, PROCESSING -> FAILED and PENDING -> FAILED;
\* COMPLETED and FAILED are absorbing, and the status, progress,
\* completed_at and output_url of a job in one of them never change again.
StatusEdges ==
    {<<PENDING, PROCESSING>>, <<PROCESSING, COMPLETED>>,
     <<PROCESSING, FAILED>>, <<PENDING, FAILED>>}

C36_StatusTransitions ==
    [][\A id \in DOMAIN jobs :
          /\ id \in DOMAIN jobs'
          /\ jobs'[id].status # jobs[id].status
             => <<jobs[id].status, jobs'[id].status>> \in StatusEdges
          /\ jobs[id].status \in {COMPLETED, FAILED}
             => /\ jobs'[id].status = jobs[id].status
                /\ jobs'[id].progress = jobs[id].progress
                /\ jobs'[id].completed_at = jobs[id].completed_at
                /\ jobs'[id].output_url = jobs[id].output_url]_vars

\* a completed and a failed job while a third one is being exported
C36_Witness ==
    \E a, b, c \in JobIds :
        /\ jobs[a].status = COMPLETED
        /\ jobs[b].status = FAILED
        /\ jobs[c].status = PROCESSING
        /\ jobs[c].progress # Int2Rat(0)

\* C37: every PENDING job has its id in the queue (the worker flips the job
\* it dequeues to PROCESSING before anything else runs), and every id in
\* the queue is the id of a PENDING job.
C37_NoStrandedPending ==
    /\ \A id \in JobIds : jobs[id].status = PENDING => InQueue(queue, id)
    /\ \A id \in Range(queue) : id \in JobIds /\ jobs[id].status = PENDING

\* C38: in every job's log the creation entry is the first entry and so
\* precedes the worker's "Starting processing..." entry, although
\* create_job appends it after the locked section that enqueued the id.
C38_CreationEntryFirst ==
    \A id \in JobIds :
        LET logs == jobs[id].logs IN
        /\ logs # <<>> => logs[1] = Entry("Job created and added to queue", "")
        /\ logs = <<>> => (el = "create_job" /\ resp.id = id /\ jobs[id].status = PENDING)
        /\ \A k \in 1..Len(logs) :
               logs[k] = Entry("Starting processing...", "") => k > 1

\* a job being created, already in the queue and not yet logged, while
\* the export of an earlier job is running
C38_Witness ==
    /\ el = "create_job"
    /\ jobs[resp.id].logs = <<>>
    /\ InQueue(queue, resp.id)
    /\ rt.pc = "clip"
    /\ jobs[rt.job].logs[1] = Entry("Job created and added to queue", "")
    /\ jobs[rt.job].logs[2] = Entry("Starting processing...", "")

====
